---- MODULE Spec2Model ----
(***************************************************************************)
(* Model of pytadbit.mapping.filter: filter_reads (the Classifier) and     *)
(* apply_filter (the Selector).                                            *)
(*                                                                         *)
(* Python strings that take part in concatenation or in a lexicographic    *)
(* sort (chromosome names, positions as text) are sequences of character   *)
(* codes.  Read ids are only compared for equality and are TLA+ strings.   *)
(* Fractions are exact per-mille integers; for every fraction and table    *)
(* size used here the double-precision value of                            *)
(* int((1 - over_represented) * num_frags + 0.5) equals the exact one.     *)
(* The two fields of a line that the code binds to "_" are not modelled.   *)
(* Positions are written in the file in plain decimal (no sign, no leading *)
(* zero), as the mapper writes them.                                       *)
(***************************************************************************)
EXTENDS Integers, Sequences, FiniteSets, TLC

VARIABLES file, over_represented, pc, frag_count, cut, uniq_check, masked,
          lineno, filters, outfile, outfile2

vars == <<file, over_represented, pc, frag_count, cut, uniq_check, masked,
          lineno, filters, outfile, outfile2>>

----------------------------------------------------------------------------
(* Bounds of the model *)

\* longest read-pair file built from the line templates
MaxLines == 3
\* largest occurrence table handed to the threshold computation on its own
MaxFrags == 4
\* largest occurrence count in such a table
MaxCount == 3

----------------------------------------------------------------------------
(* Defaults of filter_reads *)

max_molecule_length == 500
max_frag_size == 100000
min_frag_size == 100
re_proximity == 5

\* fractions are held in thousandths: 0.005 is 5
PerMille == 1000
default_over_represented == 5

----------------------------------------------------------------------------
(* Text *)

chr1 == <<99, 104, 114, 49>>
chr11 == <<99, 104, 114, 49, 49>>

\* str(n) for a non-negative integer: its decimal digits
RECURSIVE Str(_)
Str(n) == IF n < 10 THEN <<48 + n>> ELSE Str(n \div 10) \o <<48 + (n % 10)>>

\* a < b for Python strings (lexicographic on code points)
RECURSIVE StrLess(_, _)
StrLess(a, b) ==
    IF a = <<>> THEN b # <<>>
    ELSE IF b = <<>> THEN FALSE
    ELSE IF Head(a) = Head(b) THEN StrLess(Tail(a), Tail(b))
    ELSE Head(a) < Head(b)

\* abs()
Abs(x) == IF x < 0 THEN 0 - x ELSE x

\* a bool compared with an int: True == 1, False == 0
BoolInt(b) == IF b THEN 1 ELSE 0

----------------------------------------------------------------------------
(* Input files *)

\* mapped read ends: chromosome, position, restriction fragment [rs, re]
Site(cr, ps, rs, re) == [cr |-> cr, ps |-> ps, rs |-> rs, re |-> re]

S1 == Site(chr1, 1, 0, 100)
S120 == Site(chr1, 120, 100, 400)
S121 == Site(chr1, 121, 100, 400)
S380 == Site(chr1, 380, 100, 400)
S398 == Site(chr1, 398, 100, 400)
S420 == Site(chr1, 420, 400, 450)
S620 == Site(chr1, 620, 450, 1000)
S900 == Site(chr1, 900, 450, 1000)
S2000 == Site(chr1, 2000, 1000, 150000)
T20 == Site(chr11, 20, 0, 300)

Sites == {S1, S120, S121, S380, S398, S420, S620, S900, S2000, T20}

Strands == {0, 1}

\* the read id of the k-th line of a file
ReadId(k) == CASE k = 1 -> "r1" [] k = 2 -> "r2" [] k = 3 -> "r3"
               [] k = 4 -> "r4" [] OTHER -> "r5"

\* one line of the read-pair file, fields named as filter_reads names them
Line(read, a, sa, b, sb) ==
    [read |-> read,
     cr1 |-> a.cr, ps1 |-> a.ps, sd1 |-> sa, rs1 |-> a.rs, re1 |-> a.re,
     cr2 |-> b.cr, ps2 |-> b.ps, sd2 |-> sb, rs2 |-> b.rs, re2 |-> b.re]

\* pairs of ends: <<end 1, strand 1, end 2, strand 2>>
AllPairs == Sites \X Strands \X Sites \X Strands

\* the pairs the longer files are built from
Templates ==
    { <<S120, 0, S380, 1>>,     \* one fragment, self-circle
      <<S380, 1, S120, 0>>,     \* the same two ends, swapped
      <<S120, 1, S380, 0>>,     \* one fragment, dangling-end
      <<S120, 0, S380, 0>>,     \* one fragment, same strand
      <<T20, 0, S380, 1>>,      \* other chromosome: chr11 + 20 and chr1 + 380
      <<S380, 0, S420, 0>>,     \* two fragments, 40 bp apart
      <<S900, 0, S120, 1>>,     \* two fragments, far apart
      <<S900, 0, S398, 1>>,     \* end 2 near a cutting site
      <<S900, 0, S420, 1>>,     \* end 2 on a 50 bp fragment
      <<S900, 0, S2000, 1>>,    \* end 2 on a 149 kb fragment
      <<S2000, 0, S900, 1>> }   \* two fragments, far apart, one too large

MkFile(ps) == [k \in 1..Len(ps) |-> Line(ReadId(k), ps[k][1], ps[k][2], ps[k][3], ps[k][4])]

PairSeqs(S, n) == UNION { [1..m -> S] : m \in 0..n }

\* two-line files whose lines carry the same read id
SameIdFiles ==
    { [k \in 1..2 |-> Line("r1", ps[k][1], ps[k][2], ps[k][3], ps[k][4])] : ps \in [1..2 -> Templates] }

Files ==
    { MkFile(ps) : ps \in PairSeqs(Templates, MaxLines) }
      \cup { MkFile(<<p>>) : p \in AllPairs }
      \cup SameIdFiles

UniqueIds(f) == \A i, j \in DOMAIN f : f[i].read = f[j].read => i = j

\* over_represented values given to filter_reads, in thousandths
Fractions == {default_over_represented, 500, 750}

\* over_represented values given to the threshold computation on its own
CutFractions == {0, default_over_represented, 250, 500, 750, 995}

----------------------------------------------------------------------------
(* count_re_fragments: occurrences of each (chromosome, fragment start),   *)
(* one per read end                                                        *)

FragKeys(f) == { <<f[i].cr1, f[i].rs1>> : i \in DOMAIN f } \cup { <<f[i].cr2, f[i].rs2>> : i \in DOMAIN f }

count_re_fragments(f) ==
    [k \in FragKeys(f) |->
        Cardinality({ i \in DOMAIN f : <<f[i].cr1, f[i].rs1>> = k })
        + Cardinality({ i \in DOMAIN f : <<f[i].cr2, f[i].rs2>> = k })]

----------------------------------------------------------------------------
(* Threshold of the over-represented filter *)

\* sorted([frag_count[crm] for crm in frag_count])
RECURSIVE SortedOver(_, _)
SortedOver(fc, keys) ==
    IF keys = {} THEN <<>>
    ELSE LET k == CHOOSE x \in keys : \A y \in keys : fc[x] <= fc[y]
         IN <<fc[k]>> \o SortedOver(fc, keys \ {k})

SortedCounts(fc) == SortedOver(fc, DOMAIN fc)

\* the index taken from over_represented in place of 1 - over_represented
CutIndexDirect(p, num_frags) == (p * num_frags * 2 + PerMille) \div (2 * PerMille)

\* int((1 - over_represented) * num_frags + 0.5)
CutIndex(p, num_frags) == ((PerMille - p) * num_frags * 2 + PerMille) \div (2 * PerMille)

\* the list index is in range (Python indexes from 0)
CutDefined(fc, p) == CutIndex(p, Cardinality(DOMAIN fc)) < Cardinality(DOMAIN fc)

\* sorted(...)[cut]
CutOf(fc, p) == SortedCounts(fc)[CutIndex(p, Cardinality(DOMAIN fc)) + 1]

----------------------------------------------------------------------------
(* Duplicates *)

\* tuple(sorted((cr1 + ps1, cr2 + ps2)))
UniqKey(l) ==
    LET a == l.cr1 \o Str(l.ps1)
        b == l.cr2 \o Str(l.ps2)
    IN IF StrLess(b, a) THEN <<b, a>> ELSE <<a, b>>

\* the same without the first-seen read
DuplicatedCurrentOnly(reads5, first, read) == reads5 \cup {read}

\* category 5 after a line with an already seen key
Duplicated(reads5, first, read) == (reads5 \cup {read}) \cup {first}

----------------------------------------------------------------------------
(* Geometry rules *)

SameFragment(l) == l.re1 = l.re2

\* the orientation test with ">=" for ">"
SelfCircleGe(l) == BoolInt(l.ps2 >= l.ps1) = l.sd2

SelfCircle(l) == BoolInt(l.ps2 > l.ps1) = l.sd2

\* abs(ps1 - ps2) < max_molecule_length and ps1 != ps2 and ps2 > ps1 != sd2
ExtraDangling(l) ==
    /\ Abs(l.ps1 - l.ps2) < max_molecule_length
    /\ l.ps1 # l.ps2
    /\ l.ps2 > l.ps1
    /\ l.ps1 # l.sd2

TooClose(l) ==
    \/ Abs(l.re1 - l.ps1) < re_proximity
    \/ Abs(l.rs1 - l.ps1) < re_proximity
    \/ Abs(l.re2 - l.ps2) < re_proximity
    \/ Abs(l.rs2 - l.ps2) < re_proximity

TooShort(l) == (l.re1 - l.rs1) < min_frag_size \/ (l.re2 - l.rs2) < min_frag_size

TooLarge(l) == (l.re1 - l.rs1) > max_frag_size \/ (l.re2 - l.rs2) > max_frag_size

\* frag_count.get(key, 0)
Get(fc, key) == IF key \in DOMAIN fc THEN fc[key] ELSE 0

OverRepresented(l, fc, c) == Get(fc, <<l.cr1, l.rs1>>) > c \/ Get(fc, <<l.cr2, l.rs2>>) > c

\* the branches with the fragment-length test ahead of the proximity test
LaterRulesShortFirst(l, fc, c) ==
    IF TooShort(l) THEN {7}
    ELSE IF TooClose(l) THEN {6}
    ELSE IF TooLarge(l) THEN {8}
    ELSE IF OverRepresented(l, fc, c) THEN {9}
    ELSE {}

\* the elif branches after the extra dangling-end test
LaterRules(l, fc, c) ==
    IF TooClose(l) THEN {6}
    ELSE IF TooShort(l) THEN {7}
    ELSE IF TooLarge(l) THEN {8}
    ELSE IF OverRepresented(l, fc, c) THEN {9}
    ELSE {}

\* the chain with the proximity test opened by "if" in place of "elif"
GeometryCatsIf(l, fc, c) ==
    IF l.cr1 # l.cr2 THEN {}
    ELSE IF SameFragment(l)
         THEN IF l.sd1 # l.sd2
              THEN IF SelfCircle(l) THEN {1} ELSE {2}
              ELSE {4}
    ELSE IF ExtraDangling(l) THEN {3} \cup LaterRules(l, fc, c)
    ELSE LaterRules(l, fc, c)

\* the categories whose set the if / elif chain adds the read of line l to
GeometryCats(l, fc, c) ==
    IF l.cr1 # l.cr2 THEN {}
    ELSE IF SameFragment(l)
         THEN IF l.sd1 # l.sd2
              THEN IF SelfCircle(l) THEN {1} ELSE {2}
              ELSE {4}
    ELSE IF ExtraDangling(l) THEN {3}
    ELSE LaterRules(l, fc, c)

----------------------------------------------------------------------------
(* apply_filter *)

Categories == 1..9

CategoryName(k) ==
    CASE k = 1 -> "self-circle" [] k = 2 -> "dangling-end"
      [] k = 3 -> "extra dangling-end" [] k = 4 -> "error"
      [] k = 5 -> "duplicated" [] k = 6 -> "too close from RE"
      [] k = 7 -> "too short" [] k = 8 -> "too large"
      [] OTHER -> "over-represented"

\* the filters argument: omitted (None) or a collection of category ids
FilterArgs ==
    { [given |-> FALSE, ids |-> {}],
      [given |-> TRUE, ids |-> {}],
      [given |-> TRUE, ids |-> {5}],
      [given |-> TRUE, ids |-> {1, 2, 3, 4}],
      [given |-> TRUE, ids |-> Categories] }

NoFilters == [given |-> TRUE, ids |-> {}]

\* filters or masked.keys()
Effective(m, fa) == IF fa.given /\ fa.ids # {} THEN fa.ids ELSE DOMAIN m

\* the update taking the read ids of the category
UpdateReads(entry) == entry.reads

\* masked_reads.update(masked[filt]): a set updated with a dictionary takes
\* the dictionary's keys
Update(entry) == DOMAIN entry

MaskedReads(m, fa) == UNION { Update(m[filt]) : filt \in Effective(m, fa) }

\* the lines written to outfile
Written(f, m, fa) == SelectSeq(f, LAMBDA line : line.read \notin MaskedReads(m, fa))

----------------------------------------------------------------------------
(* State machine *)

NoTable == [k \in {} |-> 0]

EmptyMasked == [k \in Categories |-> [name |-> CategoryName(k), reads |-> {}]]

Fresh(f, p, at, fc) ==
    /\ file = f
    /\ over_represented = p
    /\ pc = at
    /\ frag_count = fc
    /\ cut = -1
    /\ uniq_check = NoTable
    /\ masked = EmptyMasked
    /\ lineno = 1
    /\ filters = NoFilters
    /\ outfile = <<>>
    /\ outfile2 = <<>>

Init == \E f \in Files, p \in Fractions : Fresh(f, p, "count", NoTable)

\* frag_count = count_re_fragments(fnam)
CountFragments ==
    /\ pc = "count"
    /\ frag_count' = count_re_fragments(file)
    /\ pc' = "threshold"
    /\ UNCHANGED <<file, over_represented, cut, uniq_check, masked, lineno, filters, outfile, outfile2>>

\* cut = sorted(...)[cut], or IndexError
Threshold ==
    /\ pc = "threshold"
    /\ \/ /\ CutDefined(frag_count, over_represented)
          /\ cut' = CutOf(frag_count, over_represented)
          /\ pc' = "loop"
       \/ /\ ~CutDefined(frag_count, over_represented)
          /\ cut' = cut
          /\ pc' = "crashed"
    /\ UNCHANGED <<file, over_represented, frag_count, uniq_check, masked, lineno, filters, outfile, outfile2>>

\* one turn of the loop over the lines of fnam
ReadLine ==
    /\ pc = "loop"
    /\ lineno <= Len(file)
    /\ LET l == file[lineno]
           uniq_key == UniqKey(l)
           seen == uniq_key \in DOMAIN uniq_check
           reads5 == IF seen
                     THEN Duplicated(masked[5].reads, uniq_check[uniq_key], l.read)
                     ELSE masked[5].reads
           cats == GeometryCats(l, frag_count, cut)
       IN /\ uniq_check' = IF seen THEN uniq_check ELSE (uniq_key :> l.read) @@ uniq_check
          /\ masked' = [k \in Categories |->
                          [name |-> masked[k].name,
                           reads |-> (IF k = 5 THEN reads5 ELSE masked[k].reads)
                                       \cup (IF k \in cats THEN {l.read} ELSE {})]]
    /\ lineno' = lineno + 1
    /\ UNCHANGED <<file, over_represented, pc, frag_count, cut, filters, outfile, outfile2>>

\* del(uniq_check); return masked
Return ==
    /\ pc = "loop"
    /\ lineno > Len(file)
    /\ uniq_check' = NoTable
    /\ pc' = "done"
    /\ UNCHANGED <<file, over_represented, frag_count, cut, masked, lineno, filters, outfile, outfile2>>

\* apply_filter(fnam, outfile, masked, filters) on the classified file
ApplyFilter ==
    /\ pc = "done"
    /\ \E fa \in FilterArgs :
          /\ filters' = fa
          /\ outfile' = Written(file, masked, fa)
    /\ pc' = "applied"
    /\ UNCHANGED <<file, over_represented, frag_count, cut, uniq_check, masked, lineno, outfile2>>

\* apply_filter run again on its own output, with an empty filters list
ReapplyFilter ==
    /\ pc = "applied"
    /\ outfile2' = Written(outfile, masked, NoFilters)
    /\ pc' = "reapplied"
    /\ UNCHANGED <<file, over_represented, frag_count, cut, uniq_check, masked, lineno, filters, outfile>>

Next == CountFragments \/ Threshold \/ ReadLine \/ Return \/ ApplyFilter \/ ReapplyFilter

Spec == Init /\ [][Next]_vars

\* the threshold computation on an arbitrary occurrence table
CutKeys == { <<chr1, 100 * k>> : k \in 1..MaxFrags }

Tables == UNION { [ks -> 1..MaxCount] : ks \in SUBSET CutKeys }

InitCut == \E fc \in Tables, p \in CutFractions : Fresh(<<>>, p, "threshold", fc)

NextCut == Threshold

SpecCut == InitCut /\ [][NextCut]_vars

----------------------------------------------------------------------------
(* Properties *)

Geometry == Categories \ {5}

\* a step of the loop of filter_reads over line file[lineno]
LineStep == pc = "loop" /\ lineno <= Len(file) /\ lineno' = lineno + 1

\* the read ids the chosen categories hold
ChosenReads == UNION { masked[k].reads : k \in (IF filters.given THEN filters.ids ELSE Categories) }

\* C1: apply_filter on the classifier's result writes exactly the lines of
\* the file whose read id is in none of the chosen categories' read sets, in
\* order; with the filters omitted all nine categories are chosen.
SelectorCorrect ==
    pc = "applied" =>
        outfile = SelectSeq(file, LAMBDA line : line.read \notin ChosenReads)

\* C2: when the read ids of the file are unique, no read id is in two of the
\* categories 1, 2, 3, 4, 6, 7, 8, 9.
GeometryExclusive ==
    UniqueIds(file) =>
        \A k1, k2 \in Geometry :
            k1 # k2 => masked[k1].reads \cap masked[k2].reads = {}

GeometryExclusiveWitness ==
    /\ pc = "done"
    /\ UniqueIds(file)
    /\ Len(file) = 3
    /\ "r2" \in masked[5].reads \cap masked[1].reads
    /\ "r3" \in masked[3].reads

\* C3: when filter_reads has finished, any two lines with the same canonical
\* position key both have their read id in category 5.
DuplicateSymmetry ==
    pc = "done" =>
        \A i, j \in DOMAIN file :
            (i # j /\ UniqKey(file[i]) = UniqKey(file[j])) =>
                (file[i].read \in masked[5].reads /\ file[j].read \in masked[5].reads)

DuplicateSymmetryWitness ==
    /\ pc = "done"
    /\ Len(file) = 3
    /\ UniqKey(file[1]) = UniqKey(file[2])
    /\ UniqKey(file[2]) = UniqKey(file[3])
    /\ file[1].ps1 # file[2].ps1
    /\ file[3].cr1 # file[3].cr2
    /\ {"r1", "r2", "r3"} \subseteq masked[5].reads

\* the category the same-fragment rule names for a line
SameFragmentCategory(l) ==
    IF l.sd1 = l.sd2 THEN 4
    ELSE IF (l.ps2 > l.ps1 /\ l.sd2 = 1) \/ (~(l.ps2 > l.ps1) /\ l.sd2 = 0) THEN 1
    ELSE 2

OnFragment100To400(l) ==
    /\ l.cr1 = l.cr2
    /\ l.rs1 = 100 /\ l.re1 = 400
    /\ l.rs2 = 100 /\ l.re2 = 400

\* C4: a line with both ends on one chromosome and the same fragment end adds
\* its read to category 4 when the strands are equal, else to category 1 when
\* (pos2 > pos1) equals strand2 and to category 2 otherwise, and to no other
\* geometry category; 120/0 with 380/1 on [100,400] goes to 1, 120/1 with
\* 380/0 to 2.
SameFragmentRule ==
    [][LineStep =>
        LET l == file[lineno]
        IN /\ (l.cr1 = l.cr2 /\ l.re1 = l.re2) =>
                  \A k \in Geometry :
                      masked'[k].reads = masked[k].reads \cup
                          (IF k = SameFragmentCategory(l) THEN {l.read} ELSE {})
           /\ (OnFragment100To400(l) /\ l.ps1 = 120 /\ l.sd1 = 0 /\ l.ps2 = 380 /\ l.sd2 = 1)
                  => l.read \in masked'[1].reads
           /\ (OnFragment100To400(l) /\ l.ps1 = 120 /\ l.sd1 = 1 /\ l.ps2 = 380 /\ l.sd2 = 0)
                  => l.read \in masked'[2].reads]_vars

SameFragmentRuleWitness ==
    /\ pc = "done"
    /\ Len(file) = 2
    /\ OnFragment100To400(file[1])
    /\ file[1].ps1 = 120 /\ file[1].sd1 = 0 /\ file[1].ps2 = 380 /\ file[1].sd2 = 1
    /\ OnFragment100To400(file[2])
    /\ file[2].ps1 = 120 /\ file[2].sd1 = 1 /\ file[2].ps2 = 380 /\ file[2].sd2 = 0
    /\ masked[1].reads = {"r1"}
    /\ masked[2].reads = {"r2"}

\* the ends of a line point to the inside under the same-fragment test
Inward(l) == l.sd1 # l.sd2 /\ ~((l.ps2 > l.ps1 /\ l.sd2 = 1) \/ (~(l.ps2 > l.ps1) /\ l.sd2 = 0))

\* C5: a line adds its read to category 3 exactly when its ends are on one
\* chromosome, on different fragments, less than max_molecule_length apart,
\* at different positions, and point to the inside.
ExtraDanglingRule ==
    [][LineStep =>
        LET l == file[lineno]
        IN masked'[3].reads = masked[3].reads \cup
              (IF /\ l.cr1 = l.cr2
                  /\ l.re1 # l.re2
                  /\ Abs(l.ps1 - l.ps2) < max_molecule_length
                  /\ l.ps1 # l.ps2
                  /\ Inward(l)
               THEN {l.read} ELSE {})]_vars

\* the fragment of key has more occurrences than at least a
\* (1 - over_represented) share of the fragments of the table
InTopShare(fc, p, key) ==
    /\ key \in DOMAIN fc
    /\ Cardinality({ k \in DOMAIN fc : fc[k] < fc[key] }) * PerMille
           >= (PerMille - p) * Cardinality(DOMAIN fc)

\* no rule before the over-represented one matches the line
NoEarlierRule(l) ==
    /\ ~SameFragment(l)
    /\ ~ExtraDangling(l)
    /\ ~TooClose(l)
    /\ ~TooShort(l)
    /\ ~TooLarge(l)

\* C6: when filter_reads has finished, every same-chromosome line that
\* matches no earlier rule and has an end on a fragment with more occurrences
\* than at least a (1 - over_represented) share of the fragments has its read
\* in category 9.
OverRepresentedRule ==
    pc = "done" =>
        \A i \in DOMAIN file :
            LET l == file[i]
            IN (/\ l.cr1 = l.cr2
                /\ NoEarlierRule(l)
                /\ \/ InTopShare(frag_count, over_represented, <<l.cr1, l.rs1>>)
                   \/ InTopShare(frag_count, over_represented, <<l.cr2, l.rs2>>))
               => l.read \in masked[9].reads

\* C7: with at least one fragment in the occurrence table the threshold
\* computation yields a cut; it never indexes past the sorted counts.
ThresholdGuarded ==
    Cardinality(DOMAIN frag_count) >= 1 => pc # "crashed"

\* C8: for the occurrence table at hand and fractions p1 <= p2 whose cut is
\* defined, cut(p2) <= cut(p1); the cut computed by filter_reads is one of
\* them.
ThresholdMonotone ==
    /\ \A p1, p2 \in CutFractions :
          (p1 <= p2 /\ CutDefined(frag_count, p1) /\ CutDefined(frag_count, p2)) =>
              CutOf(frag_count, p2) <= CutOf(frag_count, p1)
    /\ pc = "loop" =>
          \A p1 \in CutFractions :
              CutDefined(frag_count, p1) =>
                  /\ p1 <= over_represented => cut <= CutOf(frag_count, p1)
                  /\ over_represented <= p1 => CutOf(frag_count, p1) <= cut

ThresholdMonotoneWitness ==
    /\ pc = "loop"
    /\ \E p1 \in CutFractions :
          /\ p1 < over_represented
          /\ CutDefined(frag_count, p1)
          /\ cut < CutOf(frag_count, p1)

Ends(l) == { <<l.cr1, l.ps1>>, <<l.cr2, l.ps2>> }

\* C10: when filter_reads has finished on a file with unique read ids, a read
\* is in category 5 only if another line has the same unordered pair of
\* (chromosome, position) ends.
DuplicateSound ==
    (pc = "done" /\ UniqueIds(file)) =>
        \A i \in DOMAIN file :
            file[i].read \in masked[5].reads =>
                \E j \in DOMAIN file : j # i /\ Ends(file[j]) = Ends(file[i])

\* occurrences of the fragment of an end, 0 when the table has none
Occurrences(cr, rs) == IF <<cr, rs>> \in DOMAIN frag_count THEN frag_count[<<cr, rs>>] ELSE 0

NearCuttingSite(l) ==
    \E d \in {l.re1 - l.ps1, l.rs1 - l.ps1, l.re2 - l.ps2, l.rs2 - l.ps2} :
        d < re_proximity /\ 0 - d < re_proximity

ShortFragment(l) == l.re1 - l.rs1 < min_frag_size \/ l.re2 - l.rs2 < min_frag_size

LargeFragment(l) == l.re1 - l.rs1 > max_frag_size \/ l.re2 - l.rs2 > max_frag_size

FrequentFragment(l) == Occurrences(l.cr1, l.rs1) > cut \/ Occurrences(l.cr2, l.rs2) > cut

\* the category of the first of the four remaining rules a line matches, 0
\* when it matches none
FirstMatch(l) ==
    CASE NearCuttingSite(l) -> 6
      [] ~NearCuttingSite(l) /\ ShortFragment(l) -> 7
      [] ~NearCuttingSite(l) /\ ~ShortFragment(l) /\ LargeFragment(l) -> 8
      [] ~NearCuttingSite(l) /\ ~ShortFragment(l) /\ ~LargeFragment(l) /\ FrequentFragment(l) -> 9
      [] OTHER -> 0

\* C11: a line with both ends on one chromosome, on different fragments, that
\* is not put in category 3 adds its read to category 6 when an end is less
\* than re_proximity from a bound of its fragment, else to 7 when a fragment
\* is shorter than min_frag_size, else to 8 when one is longer than
\* max_frag_size, else to 9 when a fragment has more than cut occurrences,
\* else to none; a line matching several of the rules is recorded under the
\* first only.
FirstMatchOrder ==
    [][LineStep =>
        LET l == file[lineno]
        IN (l.cr1 = l.cr2 /\ l.re1 # l.re2 /\ l.read \notin masked'[3].reads) =>
              \A k \in Geometry :
                  masked'[k].reads = masked[k].reads \cup
                      (IF k = FirstMatch(l) THEN {l.read} ELSE {})]_vars

\* a file whose lines are recorded under 6, under 7 (a short fragment that
\* also has more than cut occurrences) and under 9
FirstMatchOrderWitness ==
    /\ pc = "done"
    /\ Len(file) = 3
    /\ \A i \in 1..3 : file[i].cr1 = file[i].cr2 /\ file[i].re1 # file[i].re2
    /\ masked[3].reads = {}
    /\ NearCuttingSite(file[1])
    /\ masked[6].reads = {"r1"}
    /\ ShortFragment(file[2]) /\ FrequentFragment(file[2])
    /\ masked[7].reads = {"r2"}
    /\ FrequentFragment(file[3])
    /\ masked[9].reads = {"r3"}

\* a line near a cutting site and on a short fragment, recorded under 6 only
FirstMatchOverlapWitness ==
    /\ pc = "done"
    /\ Len(file) = 1
    /\ file[1].cr1 = file[1].cr2 /\ file[1].re1 # file[1].re2
    /\ NearCuttingSite(file[1]) /\ ShortFragment(file[1])
    /\ masked[3].reads = {}
    /\ masked[6].reads = {"r1"}
    /\ masked[7].reads = {}

====
